---- MODULE Spec2Model ----
(***************************************************************************)
(* Guilt Meter: the progress calculator (lib/progress, called from App and *)
(* ProjectList) and the presentation mapper (config/messages).             *)
(*                                                                         *)
(* Spec        drives calculateProgress over caller-supplied task lists,   *)
(*             followed by the two mapper calls App makes with the guilt   *)
(*             percentage it obtained.                                     *)
(* MapperSpec  drives getGuiltMeterColor and getMotivationalMessage over   *)
(*             every guilt percentage in and around [0,100].               *)
(* AppSpec     is one session of the application: AuthProvider restores  *)
(*             the user of the saved token, App loads the projects, and    *)
(*             the user adds, selects and deletes projects and adds,       *)
(*             toggles and removes tasks.  The state is App's (projects,   *)
(*             currentProjectId, loading, error and the values derived on  *)
(*             render), the requests in flight with the values their       *)
(*             handlers closed over, and the backend behind the API.       *)
(* SessionSpec is the same application with the Login form: users log in,  *)
(*             sign up and log out, and add, select and delete projects.   *)
(***************************************************************************)
EXTENDS Integers, Sequences, FiniteSets, TLC

(* ------------------------------ bounds -------------------------------- *)

\* longest task list a caller supplies
MaxTasks == 2
\* weights range over -MaxNegWeight .. MaxWeight (the core validates none)
MaxWeight == 5
MaxNegWeight == 1
\* guilt percentages given to the mapper: -MaxOutside .. 100 + MaxOutside
MaxOutside == 3
\* Math.random() yields k / RandomGrain for k in 0 .. RandomGrain - 1
RandomGrain == 4
\* number of calls made on one input
MaxCalls == 3

VARIABLES
    tasks,               \* the caller-supplied Task[] (id, weight, completed)
    progressState,       \* result of the last calculateProgress call
    guiltPercentage,     \* the number handed to the presentation mapper
    guiltMeterColor,     \* result of the last getGuiltMeterColor call
    motivationalMessage, \* result of the last getMotivationalMessage call
    matchedRange,        \* what find returned in that call (0: undefined)
    randomDrawn,         \* that call consumed Math.random()
    calls                \* calls made so far

VARIABLES
    user,                \* AuthProvider: user (null or the user)
    token,               \* AuthProvider: token
    localStorageToken,   \* localStorage.getItem('token')
    isLoading,           \* AuthProvider: isLoading (the initial user load)
    authRequest,         \* the auth request awaited: /me, login or signup
    loginError,          \* Login: error
    projects,            \* App: projects
    currentProjectId,    \* App: currentProjectId
    loading,             \* App: loading
    error,               \* App: error
    inflight,            \* the project/task requests awaited by handlers
    serverProjects,      \* the backend's projects, each with owner and tasks
    nextId,              \* the next id the backend assigns
    userActions          \* clicks and submits made so far

appVars == <<user, token, localStorageToken, isLoading, authRequest,
             loginError, projects, currentProjectId, loading, error,
             inflight, serverProjects, nextId, userActions>>

vars == <<tasks, progressState, guiltPercentage, guiltMeterColor,
          motivationalMessage, matchedRange, randomDrawn, calls, appVars>>

\* null / undefined, and a present value
null == <<>>
Some(v) == <<v>>
Val(o) == o[1]

\* the application is not mounted: the calculator and the mapper are driven
\* on their own
AppIdle ==
    /\ user = null
    /\ token = null
    /\ localStorageToken = null
    /\ isLoading = FALSE
    /\ authRequest = null
    /\ loginError = ""
    /\ projects = <<>>
    /\ currentProjectId = null
    /\ loading = FALSE
    /\ error = null
    /\ inflight = <<>>
    /\ serverProjects = <<>>
    /\ nextId = 1
    /\ userActions = 0

(* ------------------------- progress calculator ------------------------ *)

Weights == (0 - MaxNegWeight) .. MaxWeight

\* Task records as far as the core reads them: id, weight, completion flag
TaskOf(i, w, c) == [id |-> i, weight |-> w, completed |-> c]

\* every task list of length n, ids 1..n in list order
TaskListsOfLen(n) ==
    { [i \in 1..n |-> TaskOf(i, ws[i], cs[i])] :
        ws \in [1..n -> Weights], cs \in [1..n -> BOOLEAN] }

TaskLists == UNION { TaskListsOfLen(n) : n \in 0..MaxTasks }

RECURSIVE SumWeights(_)
\* tasks.reduce((sum, t) => sum + t.weight, 0)
SumWeights(ts) ==
    IF ts = <<>> THEN 0
    ELSE ts[Len(ts)].weight + SumWeights(SubSeq(ts, 1, Len(ts) - 1))

\* tasks.filter(t => t.completed)
CompletedOf(ts) == SelectSeq(ts, LAMBDA t : t.completed)

\* Math.round(num / den) for den # 0: floor(num/den + 1/2), halves go up
MathRound(num, den) ==
    IF den > 0 THEN (2 * num + den) \div (2 * den)
    ELSE (0 - (2 * num + den)) \div (0 - (2 * den))

\* plausible slip: the percentage of tasks done, not clamped against an
\* empty list ("nothing left to do" read as complete)
calculateProgressEmptyComplete(ts) ==
    LET totalWeight == SumWeights(ts)
        completedWeight == SumWeights(CompletedOf(ts))
        progress == IF totalWeight = 0 THEN 100
                    ELSE MathRound(100 * completedWeight, totalWeight)
    IN  [ totalTasks |-> Len(ts),
          completedTasks |-> Len(CompletedOf(ts)),
          progressPercentage |-> progress,
          guiltPercentage |-> 100 - progress ]

\* plausible slip: guilt clamped at 0 while progress is left as computed
calculateProgressClampedGuilt(ts) ==
    LET totalWeight == SumWeights(ts)
        completedWeight == SumWeights(CompletedOf(ts))
        progress == IF totalWeight = 0 THEN 0
                    ELSE MathRound(100 * completedWeight, totalWeight)
    IN  [ totalTasks |-> Len(ts),
          completedTasks |-> Len(CompletedOf(ts)),
          progressPercentage |-> progress,
          guiltPercentage |-> IF 100 - progress < 0 THEN 0 ELSE 100 - progress ]

\* plausible slip: Math.floor in place of Math.round
calculateProgressTruncated(ts) ==
    LET totalWeight == SumWeights(ts)
        completedWeight == SumWeights(CompletedOf(ts))
        progress == IF totalWeight = 0 THEN 0
                    ELSE IF totalWeight > 0
                         THEN (100 * completedWeight) \div totalWeight
                         ELSE (0 - 100 * completedWeight) \div (0 - totalWeight)
    IN  [ totalTasks |-> Len(ts),
          completedTasks |-> Len(CompletedOf(ts)),
          progressPercentage |-> progress,
          guiltPercentage |-> 100 - progress ]

\* plausible slip: the reduce over completed tasks starts at the second one
calculateProgressSkipsFirst(ts) ==
    LET totalWeight == SumWeights(ts)
        done == CompletedOf(ts)
        completedWeight == IF done = <<>> THEN 0 ELSE SumWeights(Tail(done))
        progress == IF totalWeight = 0 THEN 0
                    ELSE MathRound(100 * completedWeight, totalWeight)
    IN  [ totalTasks |-> Len(ts),
          completedTasks |-> Len(done),
          progressPercentage |-> progress,
          guiltPercentage |-> 100 - progress ]

\* plausible slip: the completed weight is divided by the weight that
\* remains instead of by the whole
calculateProgressOverRemaining(ts) ==
    LET completedWeight == SumWeights(CompletedOf(ts))
        remainingWeight == SumWeights(ts) - completedWeight
        progress == IF remainingWeight = 0 THEN 0
                    ELSE MathRound(100 * completedWeight, remainingWeight)
    IN  [ totalTasks |-> Len(ts),
          completedTasks |-> Len(CompletedOf(ts)),
          progressPercentage |-> progress,
          guiltPercentage |-> 100 - progress ]

\* calculateProgress(tasks): ProgressState (section 4.1 of the specification)
calculateProgress(ts) ==
    LET totalWeight == SumWeights(ts)
        completedWeight == SumWeights(CompletedOf(ts))
        progress == IF totalWeight = 0 THEN 0
                    ELSE MathRound(100 * completedWeight, totalWeight)
    IN  [ totalTasks |-> Len(ts),
          completedTasks |-> Len(CompletedOf(ts)),
          progressPercentage |-> progress,
          guiltPercentage |-> 100 - progress ]

(* -------------------------- presentation mapper ----------------------- *)

\* plausible slip: the last range written 90-99, so that 100 is in no range
motivationalMessagesGapped ==
    << [ minGuilt |-> 0, maxGuilt |-> 10, messages |-> <<
           "You did it! Guilt-free and fabulous!",
           "Amazing work! You've lifted all the weight!",
           "Project complete! Go celebrate!",
           "Total victory! Time to rest and enjoy!" >> ],
       [ minGuilt |-> 10, maxGuilt |-> 25, messages |-> <<
           "Nearly there! Just a few tasks left!",
           "Incredible momentum! Keep it going!",
           "You're so close to the finish line!",
           "Fantastic progress! Almost home!" >> ],
       [ minGuilt |-> 25, maxGuilt |-> 50, messages |-> <<
           "Great halfway point! You're crushing it!",
           "Solid progress! Keep the pace!",
           "You're building great momentum!",
           "Half the battle is done - keep going!" >> ],
       [ minGuilt |-> 50, maxGuilt |-> 75, messages |-> <<
           "You've got the hard work started - nice!",
           "Getting there, one task at a time!",
           "Progress is happening! Stay focused!",
           "Good start! Let's build on this!" >> ],
       [ minGuilt |-> 75, maxGuilt |-> 90, messages |-> <<
           "You've begun your journey - that's the first step!",
           "Every task matters. You've got this!",
           "Just getting warmed up. One step at a time!",
           "Starting strong. Keep moving forward!" >> ],
       [ minGuilt |-> 90, maxGuilt |-> 99, messages |-> <<
           "Take a breath. You don't have to do it all today.",
           "This is a marathon, not a sprint. Begin when ready!",
           "Be gentle with yourself. Small steps count!",
           "Ready to get started? Pick one task!" >> ] >>

\* motivationalMessages: MotivationalMessage[] in declaration order.  The
\* strings are the source's without their leading emoji (and with the en
\* dash written "-"): module text is ASCII.
motivationalMessages ==
    << [ minGuilt |-> 0, maxGuilt |-> 10, messages |-> <<
           "You did it! Guilt-free and fabulous!",
           "Amazing work! You've lifted all the weight!",
           "Project complete! Go celebrate!",
           "Total victory! Time to rest and enjoy!" >> ],
       [ minGuilt |-> 10, maxGuilt |-> 25, messages |-> <<
           "Nearly there! Just a few tasks left!",
           "Incredible momentum! Keep it going!",
           "You're so close to the finish line!",
           "Fantastic progress! Almost home!" >> ],
       [ minGuilt |-> 25, maxGuilt |-> 50, messages |-> <<
           "Great halfway point! You're crushing it!",
           "Solid progress! Keep the pace!",
           "You're building great momentum!",
           "Half the battle is done - keep going!" >> ],
       [ minGuilt |-> 50, maxGuilt |-> 75, messages |-> <<
           "You've got the hard work started - nice!",
           "Getting there, one task at a time!",
           "Progress is happening! Stay focused!",
           "Good start! Let's build on this!" >> ],
       [ minGuilt |-> 75, maxGuilt |-> 90, messages |-> <<
           "You've begun your journey - that's the first step!",
           "Every task matters. You've got this!",
           "Just getting warmed up. One step at a time!",
           "Starting strong. Keep moving forward!" >> ],
       [ minGuilt |-> 90, maxGuilt |-> 100, messages |-> <<
           "Take a breath. You don't have to do it all today.",
           "This is a marathon, not a sprint. Begin when ready!",
           "Be gentle with yourself. Small steps count!",
           "Ready to get started? Pick one task!" >> ] >>

\* the predicate handed to Array.prototype.find
RangeMatches(msg, guilt) == guilt >= msg.minGuilt /\ guilt <= msg.maxGuilt

\* plausible slip: findLast instead of find (the upper range wins an edge)
FindRangeLast(guilt) ==
    LET hits == { i \in DOMAIN motivationalMessages :
                    RangeMatches(motivationalMessages[i], guilt) }
    IN  IF hits = {} THEN 0
        ELSE CHOOSE i \in hits : \A j \in hits : j <= i

\* motivationalMessages.find(...): index of the first matching range in
\* declaration order, 0 when find returns undefined
FindRange(guilt) ==
    LET hits == { i \in DOMAIN motivationalMessages :
                    RangeMatches(motivationalMessages[i], guilt) }
    IN  IF hits = {} THEN 0
        ELSE CHOOSE i \in hits : \A j \in hits : i <= j

\* plausible slip: the fallback indexes the first range instead of the last
FallbackMessageFirstRange == motivationalMessages[1].messages[1]

\* motivationalMessages[motivationalMessages.length - 1]!.messages[0]!
FallbackMessage ==
    motivationalMessages[Len(motivationalMessages)].messages[1]

\* the values Math.random() takes, as numerators over RandomGrain: [0,1)
RandomOutcomes == 0 .. (RandomGrain - 1)

\* Math.floor(random * n) for random = k / RandomGrain
RandomIndex(k, n) == (k * n) \div RandomGrain

\* getMotivationalMessage(guiltPercentage), Math.random() having returned
\* k / RandomGrain
getMotivationalMessage(guilt, k) ==
    LET range == FindRange(guilt)
    IN  IF range = 0 THEN FallbackMessage
        ELSE LET list == motivationalMessages[range].messages
             IN  list[RandomIndex(k, Len(list)) + 1]

\* plausible slip: the ">= 100" test moved to the end as "> 100" and the
\* bounds written strict
getGuiltMeterColorStrict(guilt) ==
    IF guilt < 10 THEN "#d9d9d9"
    ELSE IF guilt < 25 THEN "#98fb98"
    ELSE IF guilt < 50 THEN "#87ceeb"
    ELSE IF guilt < 75 THEN "#ffd700"
    ELSE IF guilt > 100 THEN "#a166d3"
    ELSE "#ff69b4"

\* getGuiltMeterColor(guiltPercentage): the tests in the order of the source
getGuiltMeterColor(guilt) ==
    IF guilt >= 100 THEN "#a166d3"
    ELSE IF guilt <= 10 THEN "#d9d9d9"
    ELSE IF guilt <= 25 THEN "#98fb98"
    ELSE IF guilt <= 50 THEN "#87ceeb"
    ELSE IF guilt <= 75 THEN "#ffd700"
    ELSE "#ff69b4"

(* ------------------------------- calls -------------------------------- *)

\* plausible slip: the calculator walks the caller's array with the in-place
\* tasks.reverse()
CalculateProgressCallInPlace ==
    /\ calls < MaxCalls
    /\ progressState' = Some(calculateProgress(tasks))
    /\ guiltPercentage' = Some(Val(progressState').guiltPercentage)
    /\ tasks' = [i \in 1..Len(tasks) |-> tasks[Len(tasks) + 1 - i]]
    /\ calls' = calls + 1
    /\ UNCHANGED <<guiltMeterColor, motivationalMessage, matchedRange,
                   randomDrawn, appVars>>

\* const progress = calculateProgress(project.tasks); the guilt percentage
\* of the result is what the caller hands to the mapper
CalculateProgressCall ==
    /\ calls < MaxCalls
    /\ progressState' = Some(calculateProgress(tasks))
    /\ guiltPercentage' = Some(Val(progressState').guiltPercentage)
    /\ calls' = calls + 1
    /\ UNCHANGED <<tasks, guiltMeterColor, motivationalMessage, matchedRange,
                   randomDrawn, appVars>>

\* getGuiltMeterColor(progressState.guiltPercentage)
GetGuiltMeterColorCall ==
    /\ calls < MaxCalls
    /\ guiltPercentage # null
    /\ guiltMeterColor' = Some(getGuiltMeterColor(Val(guiltPercentage)))
    /\ calls' = calls + 1
    /\ UNCHANGED <<tasks, progressState, guiltPercentage, motivationalMessage,
                   matchedRange, randomDrawn, appVars>>

\* getMotivationalMessage(progressState.guiltPercentage): the random number
\* is drawn only after a range was found
GetMotivationalMessageCall ==
    /\ calls < MaxCalls
    /\ guiltPercentage # null
    /\ \E k \in RandomOutcomes :
         /\ motivationalMessage' =
                Some(getMotivationalMessage(Val(guiltPercentage), k))
         /\ matchedRange' = Some(FindRange(Val(guiltPercentage)))
         /\ randomDrawn' = (FindRange(Val(guiltPercentage)) # 0)
    /\ calls' = calls + 1
    /\ UNCHANGED <<tasks, progressState, guiltPercentage, guiltMeterColor,
                   appVars>>

(* --------------------------- specifications --------------------------- *)

\* a caller holds a task list; nothing has been computed yet
Init ==
    /\ tasks \in TaskLists
    /\ progressState = null
    /\ guiltPercentage = null
    /\ guiltMeterColor = null
    /\ motivationalMessage = null
    /\ matchedRange = null
    /\ randomDrawn = FALSE
    /\ calls = 0
    /\ AppIdle

Next ==
    \/ CalculateProgressCall
    \/ GetGuiltMeterColorCall
    \/ GetMotivationalMessageCall

Spec == Init /\ [][Next]_vars

GuiltInputs == (0 - MaxOutside) .. (100 + MaxOutside)

\* a caller holds a number to hand to the mapper
MapperInit ==
    /\ tasks = <<>>
    /\ progressState = null
    /\ guiltPercentage \in { Some(g) : g \in GuiltInputs }
    /\ guiltMeterColor = null
    /\ motivationalMessage = null
    /\ matchedRange = null
    /\ randomDrawn = FALSE
    /\ calls = 0
    /\ AppIdle

MapperNext ==
    \/ GetGuiltMeterColorCall
    \/ GetMotivationalMessageCall

MapperSpec == MapperInit /\ [][MapperNext]_vars

(* ----------------------------- the backend ---------------------------- *)

\* ids the backend assigns in one run: 1 .. MaxIds
MaxIds == 3
\* requests of App awaiting their response at one time
MaxInFlight == 2
\* clicks and form submits of the users in one run
MaxActions == 4
\* a weight large enough for round(100 * w / (w + 1)) to be 100
HeavyWeight == 200

\* the accounts
Users == {"A", "B"}

\* the weights the task form submits
FormWeights == {1, HeavyWeight}

\* the user a bearer token was issued to (tokens are not rotated)
UserOfToken(t) == Val(t)

\* data.access_token of a successful login or signup of u
AccessToken(u) == Some(u)

\* remove the element at position i of a sequence
RemoveAt(seq, i) == SubSeq(seq, 1, i - 1) \o SubSeq(seq, i + 1, Len(seq))

\* GET /api/projects: the projects of the token's user
ServerList(db, u) == SelectSeq(db, LAMBDA p : p.owner = u)

\* the backend's project pid, if u owns one
ServerOwns(db, u, pid) ==
    \E i \in DOMAIN db : db[i].id = pid /\ db[i].owner = u

\* the backend's task tid, if it is in a project of u
ServerHasTask(db, u, tid) ==
    \E i \in DOMAIN db :
        /\ db[i].owner = u
        /\ \E j \in DOMAIN db[i].tasks : db[i].tasks[j].id = tid

\* the task tid as the backend holds it
ServerTask(db, tid) ==
    LET i == CHOOSE i \in DOMAIN db :
                 \E j \in DOMAIN db[i].tasks : db[i].tasks[j].id = tid
        j == CHOOSE j \in DOMAIN db[i].tasks : db[i].tasks[j].id = tid
    IN  db[i].tasks[j]

\* POST /api/projects
ServerCreateProject(db, u, id) ==
    Append(db, [id |-> id, owner |-> u, tasks |-> <<>>])

\* DELETE /api/projects/{id}
ServerDeleteProject(db, pid) == SelectSeq(db, LAMBDA p : p.id # pid)

\* POST /api/projects/{id}/tasks: the new task is not completed
ServerAddTask(db, pid, id, w) ==
    [i \in DOMAIN db |->
        IF db[i].id = pid
        THEN [db[i] EXCEPT !.tasks = Append(@, TaskOf(id, w, FALSE))]
        ELSE db[i]]

\* PATCH /api/tasks/{id}/toggle
ServerToggleTask(db, tid) ==
    [i \in DOMAIN db |->
        [db[i] EXCEPT !.tasks =
            [j \in DOMAIN @ |->
                IF @[j].id = tid
                THEN [@[j] EXCEPT !.completed = ~@]
                ELSE @[j]]]]

\* DELETE /api/tasks/{id}
ServerDeleteTask(db, tid) ==
    [i \in DOMAIN db |->
        [db[i] EXCEPT !.tasks = SelectSeq(@, LAMBDA t : t.id # tid)]]

(* ------------------------------ App: render -------------------------- *)

\* projects.find((p) => p.id === currentProjectId)
FindProject(ps, cid) ==
    IF cid = null \/ \A i \in DOMAIN ps : ps[i].id # Val(cid) THEN null
    ELSE Some(ps[CHOOSE i \in DOMAIN ps :
                    /\ ps[i].id = Val(cid)
                    /\ \A j \in 1..(i - 1) : ps[j].id # Val(cid)])

\* const currentProject = useMemo(..., [projects, currentProjectId])
currentProject == FindProject(projects, currentProjectId)

\* plausible slip: progressState memoised on [currentProjectId]
ProgressDepsIdOnly(ps, cid) == cid

\* the dependency list of the progressState memo: [currentProject].  Project
\* objects are never changed in place, so a changed content stands for a
\* changed reference
ProgressDeps(ps, cid) == FindProject(ps, cid)

\* currentProject ? calculateProgress(currentProject.tasks) : null
DeriveProgress(cp) ==
    IF cp = null THEN null ELSE Some(calculateProgress(Val(cp).tasks))

\* progressState ? getGuiltMeterColor(progressState.guiltPercentage)
\*               : '#e5e7eb'
DeriveColor(ps) ==
    IF ps = null THEN Some("#e5e7eb")
    ELSE Some(getGuiltMeterColor(Val(ps).guiltPercentage))

\* the render that follows a state change to (ps, cid): each memo is
\* recomputed when its dependencies changed and kept otherwise
Render(ps, cid) ==
    /\ progressState' =
          IF ProgressDeps(ps, cid) = ProgressDeps(projects, currentProjectId)
          THEN progressState
          ELSE DeriveProgress(FindProject(ps, cid))
    /\ guiltPercentage' =
          IF progressState' = null THEN null
          ELSE Some(Val(progressState').guiltPercentage)
    /\ guiltMeterColor' =
          IF progressState' = progressState THEN guiltMeterColor
          ELSE DeriveColor(progressState')
    /\ UNCHANGED <<tasks, motivationalMessage, matchedRange, randomDrawn,
                   calls>>

\* a render in which neither projects nor currentProjectId changed
RenderSame == Render(projects, currentProjectId)

\* ProjectList, for each project: const progress =
\* calculateProgress(project.tasks); const isComplete =
\* progress.progressPercentage === 100 && project.tasks.length > 0
IsComplete(project) ==
    /\ calculateProgress(project.tasks).progressPercentage = 100
    /\ Len(project.tasks) > 0

(* ---------------------------- App: requests --------------------------- *)

\* a request awaited by a handler: what was sent, the values the handler
\* closed over, and the response once the backend has answered
Request(kind, pid, tid, w) ==
    [ kind |-> kind, token |-> token,
      projects |-> projects, currentProjectId |-> currentProjectId,
      projectId |-> pid, taskId |-> tid, weight |-> w,
      phase |-> "sent", result |-> null ]

\* requests in flight that will make the backend assign an id
PendingCreates ==
    Cardinality({ i \in DOMAIN inflight :
                    /\ inflight[i].phase = "sent"
                    /\ inflight[i].kind \in {"addProject", "addTask"} })

CanSend == Len(inflight) < MaxInFlight

\* the user clicks a button or submits a form
UserActs == userActions < MaxActions /\ userActions' = userActions + 1

CanCreate == CanSend /\ nextId + PendingCreates <= MaxIds

\* App renders the sidebar and the main view
MainView == ~isLoading /\ user # null

\* the main view shows the project (header, gauge, task form, task list)
ProjectView == MainView /\ ~loading /\ currentProject # null

\* loadProjects up to its await: setLoading(true); fetch('/api/projects')
\* with the Authorization header of the token t
LoadRequest(t) ==
    [ kind |-> "load", token |-> t,
      projects |-> projects, currentProjectId |-> currentProjectId,
      projectId |-> 0, taskId |-> 0, weight |-> 0,
      phase |-> "sent", result |-> null ]

\* useEffect(..., [isAuthenticated, user, token, loadProjects]) after the
\* session changed to (u, t)
SessionEffect(u, t) ==
    IF u # null /\ t # null
    THEN /\ loading' = TRUE
         /\ inflight' = Append(inflight, LoadRequest(t))
    ELSE /\ loading' = FALSE
         /\ UNCHANGED inflight

(* ---------------------------- AuthProvider ---------------------------- *)

\* the frame of a step of AuthProvider or Login: App's own state stays
AppStateKept ==
    /\ UNCHANGED <<projects, currentProjectId, error, serverProjects, nextId>>
    /\ RenderSame

\* loadUser after its await, response.ok: setUser(data); setToken(savedToken);
\* setIsLoading(false)
LoadUserOk ==
    /\ authRequest # null
    /\ UNCHANGED userActions
    /\ Val(authRequest).kind = "me"
    /\ user' = Some(UserOfToken(Val(authRequest).token))
    /\ token' = Val(authRequest).token
    /\ isLoading' = FALSE
    /\ authRequest' = null
    /\ SessionEffect(user', token')
    /\ UNCHANGED <<localStorageToken, loginError>>
    /\ AppStateKept

\* loadUser after its await, response not ok or fetch rejected:
\* setToken(null); localStorage.removeItem('token'); setIsLoading(false)
LoadUserFails ==
    /\ authRequest # null
    /\ UNCHANGED userActions
    /\ Val(authRequest).kind = "me"
    /\ token' = null
    /\ localStorageToken' = null
    /\ isLoading' = FALSE
    /\ authRequest' = null
    /\ SessionEffect(user, token')
    /\ UNCHANGED <<user, loginError>>
    /\ AppStateKept

\* Login.handleSubmit up to its await: setError(''); setLoading(true);
\* login(...) or signup(...) sends its request.  App shows Login when the
\* initial load is over and nobody is authenticated; the submit button is
\* disabled while Login's loading is set
LoginSubmit(kind, u) ==
    /\ ~isLoading
    /\ user = null
    /\ authRequest = null
    /\ UserActs
    /\ authRequest' = Some([kind |-> kind, user |-> u, token |-> null])
    /\ loginError' = ""
    /\ UNCHANGED <<user, token, localStorageToken, isLoading, loading,
                   inflight>>
    /\ AppStateKept

\* plausible slip: localStorage.setItem('token', token), the state variable
\* the callback closed over instead of data.access_token
LoginOkNotStored ==
    /\ authRequest # null
    /\ UNCHANGED userActions
    /\ Val(authRequest).kind \in {"login", "signup"}
    /\ CanSend
    /\ token' = AccessToken(Val(authRequest).user)
    /\ user' = Some(Val(authRequest).user)
    /\ localStorageToken' = token
    /\ authRequest' = null
    /\ loginError' = ""
    /\ SessionEffect(user', token')
    /\ UNCHANGED isLoading
    /\ AppStateKept

\* login / signup after the await, response.ok: setToken(data.access_token);
\* setUser(data.user); localStorage.setItem('token', data.access_token).
\* App then renders the main view and Login is unmounted
LoginOk ==
    /\ authRequest # null
    /\ UNCHANGED userActions
    /\ Val(authRequest).kind \in {"login", "signup"}
    /\ CanSend
    /\ token' = AccessToken(Val(authRequest).user)
    /\ user' = Some(Val(authRequest).user)
    /\ localStorageToken' = token'
    /\ authRequest' = null
    /\ loginError' = ""
    /\ SessionEffect(user', token')
    /\ UNCHANGED isLoading
    /\ AppStateKept

\* login / signup after the await, response not ok (or fetch rejected): the
\* function throws; Login catches, sets its error and clears its loading
LoginFails ==
    /\ authRequest # null
    /\ UNCHANGED userActions
    /\ Val(authRequest).kind \in {"login", "signup"}
    /\ authRequest' = null
    /\ loginError' = IF Val(authRequest).kind = "login"
                     THEN "Login failed" ELSE "Signup failed"
    /\ UNCHANGED <<user, token, localStorageToken, isLoading, loading,
                   inflight>>
    /\ AppStateKept

\* logout: setToken(null); setUser(null); localStorage.removeItem('token').
\* The button is in the header of the main view
Logout ==
    /\ MainView
    /\ UserActs
    /\ token' = null
    /\ user' = null
    /\ localStorageToken' = null
    /\ SessionEffect(user', token')
    /\ UNCHANGED <<isLoading, authRequest, loginError>>
    /\ AppStateKept

(* ---------------------------- App: handlers --------------------------- *)

\* a handler that only sends its request: no state of React changes
Sent(req) ==
    /\ UserActs
    /\ inflight' = Append(inflight, req)
    /\ UNCHANGED <<user, token, localStorageToken, isLoading, authRequest,
                   loginError, projects, currentProjectId, loading, error,
                   serverProjects, nextId>>
    /\ RenderSame

\* handleAddProject up to its await (the form is in the sidebar)
HandleAddProject ==
    /\ MainView
    /\ CanCreate
    /\ Sent(Request("addProject", 0, 0, 0))

\* handleSelectProject(projectId), from a button of ProjectList
HandleSelectProject(pid) ==
    /\ MainView
    /\ \E i \in DOMAIN projects : projects[i].id = pid
    /\ UserActs
    /\ currentProjectId' = Some(pid)
    /\ Render(projects, Some(pid))
    /\ UNCHANGED <<user, token, localStorageToken, isLoading, authRequest,
                   loginError, projects, loading, error, inflight,
                   serverProjects, nextId>>

\* handleDeleteProject(projectId) up to its await, from ProjectHeader of the
\* current project
HandleDeleteProject ==
    /\ ProjectView
    /\ CanSend
    /\ Sent(Request("deleteProject", Val(currentProject).id, 0, 0))

\* if (!currentProject) return: the handler ends, nothing was sent or set
Returned ==
    /\ UserActs
    /\ UNCHANGED <<user, token, localStorageToken, isLoading, authRequest,
                   loginError, projects, currentProjectId, loading, error,
                   inflight, serverProjects, nextId>>
    /\ RenderSame

\* handleAddTask(title, weight) up to its await.  TaskForm is rendered in the
\* project view only; a call made without a current project returns at once
HandleAddTask(w) ==
    /\ MainView
    /\ IF currentProject = null THEN Returned
       ELSE /\ ProjectView
            /\ CanCreate
            /\ Sent(Request("addTask", Val(currentProject).id, 0, w))

\* handleToggleTask(taskId) up to its await, from TaskList; returns at once
\* without a current project
HandleToggleTask(tid) ==
    /\ MainView
    /\ IF currentProject = null THEN Returned
       ELSE /\ ProjectView
            /\ CanSend
            /\ \E j \in DOMAIN Val(currentProject).tasks :
                  Val(currentProject).tasks[j].id = tid
            /\ Sent(Request("toggleTask", Val(currentProject).id, tid, 0))

\* handleRemoveTask(taskId) up to its await, from TaskList; returns at once
\* without a current project
HandleRemoveTask(tid) ==
    /\ MainView
    /\ IF currentProject = null THEN Returned
       ELSE /\ ProjectView
            /\ CanSend
            /\ \E j \in DOMAIN Val(currentProject).tasks :
                  Val(currentProject).tasks[j].id = tid
            /\ Sent(Request("removeTask", Val(currentProject).id, tid, 0))

(* -------------------------- the backend answers ----------------------- *)

\* the answer to request i is on its way back
Answered(i, phase, result) ==
    inflight' = [inflight EXCEPT ![i] =
                    [@ EXCEPT !.phase = phase, !.result = result]]

BackendFrame ==
    /\ UNCHANGED <<user, token, localStorageToken, isLoading, authRequest,
                   loginError, projects, currentProjectId, loading, error,
                   userActions>>
    /\ RenderSame

\* the backend serves request i for the user of its bearer token
BackendServes(i) ==
    /\ i \in DOMAIN inflight
    /\ inflight[i].phase = "sent"
    /\ inflight[i].token # null
    /\ LET req == inflight[i]
           u == UserOfToken(req.token)
       IN  CASE req.kind = "load" ->
                  /\ Answered(i, "ok", Some(ServerList(serverProjects, u)))
                  /\ UNCHANGED <<serverProjects, nextId>>
             [] req.kind = "addProject" ->
                  /\ serverProjects' =
                        ServerCreateProject(serverProjects, u, nextId)
                  /\ nextId' = nextId + 1
                  /\ Answered(i, "ok",
                        Some([id |-> nextId, owner |-> u, tasks |-> <<>>]))
             [] req.kind = "deleteProject" ->
                  /\ ServerOwns(serverProjects, u, req.projectId)
                  /\ serverProjects' =
                        ServerDeleteProject(serverProjects, req.projectId)
                  /\ Answered(i, "ok", null)
                  /\ UNCHANGED nextId
             [] req.kind = "addTask" ->
                  /\ ServerOwns(serverProjects, u, req.projectId)
                  /\ serverProjects' =
                        ServerAddTask(serverProjects, req.projectId, nextId,
                                      req.weight)
                  /\ nextId' = nextId + 1
                  /\ Answered(i, "ok",
                        Some(TaskOf(nextId, req.weight, FALSE)))
             [] req.kind = "toggleTask" ->
                  /\ ServerHasTask(serverProjects, u, req.taskId)
                  /\ serverProjects' =
                        ServerToggleTask(serverProjects, req.taskId)
                  /\ Answered(i, "ok",
                        Some(ServerTask(serverProjects', req.taskId)))
                  /\ UNCHANGED nextId
             [] req.kind = "removeTask" ->
                  /\ ServerHasTask(serverProjects, u, req.taskId)
                  /\ serverProjects' =
                        ServerDeleteTask(serverProjects, req.taskId)
                  /\ Answered(i, "ok", null)
                  /\ UNCHANGED nextId
    /\ BackendFrame

(* ----------------------- App: handlers, resumed ----------------------- *)

\* how the await of a request can end: with the response the backend sent,
\* or, for a request the backend has not served, with an error status
\* ("notOk": the handler throws) or with fetch rejecting ("rejected")
Outcomes(req) ==
    IF req.phase = "ok" THEN {"ok"} ELSE {"notOk", "rejected"}

\* the handler awaiting request i resumes
Resumes(i, kind) ==
    /\ i \in DOMAIN inflight
    /\ inflight[i].kind = kind
    /\ inflight' = RemoveAt(inflight, i)
    /\ UNCHANGED <<user, token, localStorageToken, isLoading, authRequest,
                   loginError, serverProjects, nextId, userActions>>

\* what the catch clause stores: the message of the Error thrown for a
\* response that is not ok, or the message of the rejection of fetch
Caught(outcome, message) ==
    IF outcome = "notOk" THEN Some(message) ELSE Some("Failed to fetch")

\* catch (err) { setError(...) }
Catch(outcome, message) ==
    /\ error' = Caught(outcome, message)
    /\ UNCHANGED <<projects, currentProjectId>>
    /\ RenderSame

\* loadProjects after its await
LoadProjectsResumes(i) ==
    /\ Resumes(i, "load")
    /\ \E outcome \in Outcomes(inflight[i]) :
       LET req == inflight[i]
       IN  IF outcome = "ok"
           THEN LET data == Val(req.result)
                IN  /\ projects' = data
                    /\ currentProjectId' =
                          IF Len(data) > 0 THEN Some(data[1].id)
                          ELSE currentProjectId
                    /\ error' = null
                    /\ Render(projects', currentProjectId')
           ELSE Catch(outcome, "Failed to load projects")
    /\ loading' = FALSE

\* [...projects, newProject] with the projects the handler closed over
AddProjectApplied(req) == Append(req.projects, Val(req.result))

\* handleAddProject after its await
AddProjectResumes(i) ==
    /\ Resumes(i, "addProject")
    /\ \E outcome \in Outcomes(inflight[i]) :
       LET req == inflight[i]
       IN  IF outcome = "ok"
           THEN /\ projects' = AddProjectApplied(req)
                /\ currentProjectId' = Some(Val(req.result).id)
                /\ Render(projects', currentProjectId')
                /\ UNCHANGED error
           ELSE Catch(outcome, "Failed to create project")
    /\ UNCHANGED loading

\* projects.filter((p) => p.id !== projectId)
DeleteProjectApplied(req) ==
    SelectSeq(req.projects, LAMBDA p : p.id # req.projectId)

\* handleDeleteProject after its await
DeleteProjectResumes(i) ==
    /\ Resumes(i, "deleteProject")
    /\ \E outcome \in Outcomes(inflight[i]) :
       LET req == inflight[i]
           updatedProjects == DeleteProjectApplied(req)
       IN  IF outcome = "ok"
           THEN /\ projects' = updatedProjects
                /\ currentProjectId' =
                      IF req.currentProjectId = Some(req.projectId)
                      THEN IF Len(updatedProjects) > 0
                           THEN Some(updatedProjects[1].id)
                           ELSE null
                      ELSE currentProjectId
                /\ Render(projects', currentProjectId')
                /\ UNCHANGED error
           ELSE Catch(outcome, "Failed to delete project")
    /\ UNCHANGED loading

\* plausible slip: the new task is put in front of the list
AddTaskAppliedInFront(req) ==
    [i \in DOMAIN req.projects |->
        IF req.projects[i].id = req.projectId
        THEN [req.projects[i] EXCEPT !.tasks = <<Val(req.result)>> \o @]
        ELSE req.projects[i]]

\* projects.map((p) => p.id === currentProject.id
\*                       ? { ...p, tasks: [...p.tasks, newTask] } : p)
AddTaskApplied(req) ==
    [i \in DOMAIN req.projects |->
        IF req.projects[i].id = req.projectId
        THEN [req.projects[i] EXCEPT !.tasks = Append(@, Val(req.result))]
        ELSE req.projects[i]]

\* handleAddTask after its await
AddTaskResumes(i) ==
    /\ Resumes(i, "addTask")
    /\ \E outcome \in Outcomes(inflight[i]) :
       LET req == inflight[i]
       IN  IF outcome = "ok"
           THEN /\ projects' = AddTaskApplied(req)
                /\ Render(projects', currentProjectId)
                /\ UNCHANGED <<currentProjectId, error>>
           ELSE Catch(outcome, "Failed to create task")
    /\ UNCHANGED loading

\* projects.map((p) => p.id === currentProject.id
\*     ? { ...p, tasks: p.tasks.map((t) => t.id === taskId ? updatedTask : t) }
\*     : p)
ToggleTaskApplied(req) ==
    [i \in DOMAIN req.projects |->
        IF req.projects[i].id = req.projectId
        THEN [req.projects[i] EXCEPT !.tasks =
                [j \in DOMAIN @ |->
                    IF @[j].id = req.taskId THEN Val(req.result) ELSE @[j]]]
        ELSE req.projects[i]]

\* handleToggleTask after its await
ToggleTaskResumes(i) ==
    /\ Resumes(i, "toggleTask")
    /\ \E outcome \in Outcomes(inflight[i]) :
       LET req == inflight[i]
       IN  IF outcome = "ok"
           THEN /\ projects' = ToggleTaskApplied(req)
                /\ Render(projects', currentProjectId)
                /\ UNCHANGED <<currentProjectId, error>>
           ELSE Catch(outcome, "Failed to toggle task")
    /\ UNCHANGED loading

\* projects.map((p) => p.id === currentProject.id
\*     ? { ...p, tasks: p.tasks.filter((t) => t.id !== taskId) } : p)
RemoveTaskApplied(req) ==
    [i \in DOMAIN req.projects |->
        IF req.projects[i].id = req.projectId
        THEN [req.projects[i] EXCEPT !.tasks =
                SelectSeq(@, LAMBDA t : t.id # req.taskId)]
        ELSE req.projects[i]]

\* plausible slip: no "if (!response.ok) throw": the task is filtered out
\* whatever the status, and only a rejected fetch reaches the catch clause
RemoveTaskResumesUnchecked(i) ==
    /\ Resumes(i, "removeTask")
    /\ \E outcome \in Outcomes(inflight[i]) :
       LET req == inflight[i]
       IN  IF outcome # "rejected"
           THEN /\ projects' = RemoveTaskApplied(req)
                /\ Render(projects', currentProjectId)
                /\ UNCHANGED <<currentProjectId, error>>
           ELSE Catch(outcome, "Failed to delete task")
    /\ UNCHANGED loading

\* handleRemoveTask after its await
RemoveTaskResumes(i) ==
    /\ Resumes(i, "removeTask")
    /\ \E outcome \in Outcomes(inflight[i]) :
       LET req == inflight[i]
       IN  IF outcome = "ok"
           THEN /\ projects' = RemoveTaskApplied(req)
                /\ Render(projects', currentProjectId)
                /\ UNCHANGED <<currentProjectId, error>>
           ELSE Catch(outcome, "Failed to delete task")
    /\ UNCHANGED loading

(* ------------------------- the application ---------------------------- *)

\* the variables of the calculator's caller that App does not use
CallerUnused ==
    /\ tasks = <<>>
    /\ motivationalMessage = null
    /\ matchedRange = null
    /\ randomDrawn = FALSE
    /\ calls = 0

\* AuthProvider and App after their first render and effects, the token
\* saved in localStorage being saved: the token state is read from
\* localStorage; with a saved token /api/auth/me is awaited and isLoading
\* stays set, without one isLoading is cleared; App's effect finds nobody
\* authenticated and clears loading.  The backend holds no project
Mounted(saved) ==
    /\ localStorageToken = saved
    /\ token = localStorageToken
    /\ user = null
    /\ isLoading = (localStorageToken # null)
    /\ authRequest =
          IF localStorageToken = null THEN null
          ELSE Some([kind |-> "me", user |-> "", token |-> localStorageToken])
    /\ loginError = ""
    /\ projects = <<>>
    /\ currentProjectId = null
    /\ loading = FALSE
    /\ error = null
    /\ inflight = <<>>
    /\ serverProjects = <<>>
    /\ nextId = 1
    /\ userActions = 0
    /\ progressState = null
    /\ guiltPercentage = null
    /\ guiltMeterColor = Some("#e5e7eb")
    /\ CallerUnused

\* One session: the page is opened with the saved token of a user, who then
\* works on projects and tasks, actions overlapping with earlier requests
AppInit == \E u \in Users : Mounted(AccessToken(u))

AppNext ==
    \/ LoadUserOk
    \/ LoadUserFails
    \/ HandleAddProject
    \/ \E pid \in 1..MaxIds : HandleSelectProject(pid)
    \/ HandleDeleteProject
    \/ \E w \in FormWeights : HandleAddTask(w)
    \/ \E tid \in 1..MaxIds : HandleToggleTask(tid)
    \/ \E tid \in 1..MaxIds : HandleRemoveTask(tid)
    \/ \E i \in 1..MaxInFlight : BackendServes(i)
    \/ \E i \in 1..MaxInFlight : LoadProjectsResumes(i)
    \/ \E i \in 1..MaxInFlight : AddProjectResumes(i)
    \/ \E i \in 1..MaxInFlight : DeleteProjectResumes(i)
    \/ \E i \in 1..MaxInFlight : AddTaskResumes(i)
    \/ \E i \in 1..MaxInFlight : ToggleTaskResumes(i)
    \/ \E i \in 1..MaxInFlight : RemoveTaskResumes(i)

AppSpec == AppInit /\ [][AppNext]_vars

\* Sessions: the page is opened with or without a saved token; users log in,
\* sign up and log out, and create, select and delete projects
SessionInit ==
    \E saved \in {null} \cup { AccessToken(u) : u \in Users } : Mounted(saved)

SessionNext ==
    \/ LoadUserOk
    \/ LoadUserFails
    \/ \E kind \in {"login", "signup"}, u \in Users : LoginSubmit(kind, u)
    \/ LoginOk
    \/ LoginFails
    \/ Logout
    \/ HandleAddProject
    \/ \E pid \in 1..MaxIds : HandleSelectProject(pid)
    \/ HandleDeleteProject
    \/ \E i \in 1..MaxInFlight : BackendServes(i)
    \/ \E i \in 1..MaxInFlight : LoadProjectsResumes(i)
    \/ \E i \in 1..MaxInFlight : AddProjectResumes(i)
    \/ \E i \in 1..MaxInFlight : DeleteProjectResumes(i)

SessionSpec == SessionInit /\ [][SessionNext]_vars

\* Overlapping actions: the user of the saved token is restored and the
\* projects are loaded (none yet) before the first action; the user then
\* works on projects and tasks, starting actions before earlier responses
\* have arrived
Loaded(u) ==
    /\ localStorageToken = AccessToken(u)
    /\ token = localStorageToken
    /\ user = Some(u)
    /\ isLoading = FALSE
    /\ authRequest = null
    /\ loginError = ""
    /\ projects = <<>>
    /\ currentProjectId = null
    /\ loading = FALSE
    /\ error = null
    /\ inflight = <<>>
    /\ serverProjects = <<>>
    /\ nextId = 1
    /\ userActions = 0
    /\ progressState = null
    /\ guiltPercentage = null
    /\ guiltMeterColor = Some("#e5e7eb")
    /\ CallerUnused

OverlapInit == \E u \in Users : Loaded(u)

OverlapNext ==
    \/ HandleAddProject
    \/ \E pid \in 1..MaxIds : HandleSelectProject(pid)
    \/ HandleDeleteProject
    \/ \E w \in FormWeights : HandleAddTask(w)
    \/ \E tid \in 1..MaxIds : HandleToggleTask(tid)
    \/ \E tid \in 1..MaxIds : HandleRemoveTask(tid)
    \/ \E i \in 1..MaxInFlight : BackendServes(i)
    \/ \E i \in 1..MaxInFlight : AddProjectResumes(i)
    \/ \E i \in 1..MaxInFlight : DeleteProjectResumes(i)
    \/ \E i \in 1..MaxInFlight : AddTaskResumes(i)
    \/ \E i \in 1..MaxInFlight : ToggleTaskResumes(i)
    \/ \E i \in 1..MaxInFlight : RemoveTaskResumes(i)

OverlapSpec == OverlapInit /\ [][OverlapNext]_vars

(* ------------------------ helpers of the claims ----------------------- *)

\* the result of the last calculateProgress call
PS == Val(progressState)

\* the number the mapper was given
G == Val(guiltPercentage)

RECURSIVE WeightOver(_, _)
\* sum of the weights of the tasks at the positions I of ts
WeightOver(ts, I) ==
    IF I = {} THEN 0
    ELSE LET i == CHOOSE j \in I : TRUE
         IN  ts[i].weight + WeightOver(ts, I \ {i})

CompletedPositions(ts) == { i \in DOMAIN ts : ts[i].completed }

\* p is num/den rounded to the nearest integer, a half going up
IsNearest(p, num, den) ==
    IF den > 0
    THEN (2 * p - 1) * den <= 2 * num /\ 2 * num < (2 * p + 1) * den
    ELSE (2 * p - 1) * den >= 2 * num /\ 2 * num > (2 * p + 1) * den

AllNonNegative(ts) == \A i \in DOMAIN ts : ts[i].weight >= 0

InPercentRange(x) == 0 <= x /\ x <= 100

RangeOf(seq) == { seq[i] : i \in DOMAIN seq }

(* ------------------------------- claims ------------------------------- *)

\* C1: every computed ProgressState has guiltPercentage + progressPercentage
\* = 100, guiltPercentage being exactly 100 - progressPercentage.
C1_GuiltPlusProgressIs100 ==
    progressState # null =>
        /\ PS.guiltPercentage + PS.progressPercentage = 100
        /\ PS.guiltPercentage = 100 - PS.progressPercentage

\* a list with a completed and an open task was measured: 3 of 8, 37.5%,
\* reported as 38
C1_Witness ==
    /\ progressState # null
    /\ Len(tasks) = 2
    /\ PS.completedTasks = 1
    /\ PS.progressPercentage = 38
    /\ PS.guiltPercentage = 62

C3_WeightedRoundedPercentage ==
    progressState # null =>
        LET total == WeightOver(tasks, DOMAIN tasks)
            done == WeightOver(tasks, CompletedPositions(tasks))
        IN  /\ PS.totalTasks = Len(tasks)
            /\ PS.completedTasks = Cardinality(CompletedPositions(tasks))
            /\ total = 0 => PS.progressPercentage = 0
            /\ total # 0 => IsNearest(PS.progressPercentage, 100 * done, total)
            /\ tasks = << TaskOf(1, 1, FALSE), TaskOf(2, 3, TRUE) >> =>
                  /\ PS.progressPercentage = 75
                  /\ PS.guiltPercentage = 25

\* the weighted example of the specification was computed
C3_Witness ==
    /\ progressState # null
    /\ tasks = << TaskOf(1, 1, FALSE), TaskOf(2, 3, TRUE) >>
    /\ PS.progressPercentage = 75

\* C4: the empty task list yields exactly totalTasks 0, completedTasks 0,
\* progressPercentage 0, guiltPercentage 100.
C4_EmptyListIsZeroProgress ==
    (progressState # null /\ tasks = <<>>) =>
        PS = [ totalTasks |-> 0, completedTasks |-> 0,
               progressPercentage |-> 0, guiltPercentage |-> 100 ]

\* calculateProgress returned for the empty list
C4_Witness ==
    /\ progressState # null
    /\ tasks = <<>>
    /\ PS.totalTasks = 0

\* C5: a non-empty list whose tasks are all completed and all carry the same
\* positive weight yields progressPercentage 100 and guiltPercentage 0.
C5_AllDoneEqualWeightsIs100 ==
    ( /\ progressState # null
      /\ tasks # <<>>
      /\ \A i \in DOMAIN tasks : tasks[i].completed
      /\ \A i \in DOMAIN tasks : tasks[i].weight = tasks[1].weight
      /\ tasks[1].weight > 0 ) =>
        /\ PS.progressPercentage = 100
        /\ PS.guiltPercentage = 0

\* two completed tasks of weight 2 were measured
C5_Witness ==
    /\ progressState # null
    /\ Len(tasks) = 2
    /\ \A i \in DOMAIN tasks : tasks[i].completed /\ tasks[i].weight = 2
    /\ PS.completedTasks = 2

\* the six colour bands of the specification in ascending order; "le" is
\* <= bound, "lt" is < bound, "ge" is >= bound
ColorBands ==
    << [ test |-> "le", bound |-> 10,  color |-> "#d9d9d9" ],
       [ test |-> "le", bound |-> 25,  color |-> "#98fb98" ],
       [ test |-> "le", bound |-> 50,  color |-> "#87ceeb" ],
       [ test |-> "le", bound |-> 75,  color |-> "#ffd700" ],
       [ test |-> "lt", bound |-> 100, color |-> "#ff69b4" ],
       [ test |-> "ge", bound |-> 100, color |-> "#a166d3" ] >>

InBand(band, g) ==
    CASE band.test = "le" -> g <= band.bound
      [] band.test = "lt" -> g < band.bound
      [] band.test = "ge" -> g >= band.bound

\* the first band, in ascending order, that g satisfies
FirstBand(g) ==
    CHOOSE i \in DOMAIN ColorBands :
        /\ InBand(ColorBands[i], g)
        /\ \A j \in 1..(i - 1) : ~InBand(ColorBands[j], g)

\* C6: for every guiltPercentage in [0,100] getGuiltMeterColor returns the
\* colour of the first band, in the ascending order <=10, <=25, <=50, <=75,
\* <100, >=100, that the value satisfies; 10 yields soft silver, not pastel
\* mint, and only 100 yields the colour of the last band.
C6_ColorOfFirstAscendingBand ==
    (guiltMeterColor # null /\ G \in 0..100) =>
        /\ Val(guiltMeterColor) = ColorBands[FirstBand(G)].color
        /\ G = 10 => Val(guiltMeterColor) = "#d9d9d9"
        /\ Val(guiltMeterColor) = "#a166d3" <=> G = 100

\* the colour of the boundary value 10 was asked for
C6_Witness ==
    /\ guiltMeterColor # null
    /\ G = 10
    /\ Val(guiltMeterColor) = "#d9d9d9"

\* the lower of the ranges that share the edge g, by the table's bounds
LowerRange(g) ==
    IF g <= 10 THEN 1
    ELSE IF g <= 25 THEN 2
    ELSE IF g <= 50 THEN 3
    ELSE IF g <= 75 THEN 4
    ELSE IF g <= 90 THEN 5
    ELSE 6

\* C7: for every guiltPercentage in [0,100] and every outcome of the random
\* choice, the message returned is one of the messages of the first range in
\* declaration order that contains the value; at the shared edges 10, 25, 50,
\* 75 and 90 the lower range wins, and 0 yields one of the four strings of the
\* 0-10 range.
C7_MessageFromFirstMatchingRange ==
    (motivationalMessage # null /\ G \in 0..100) =>
        /\ \E i \in DOMAIN motivationalMessages :
              /\ RangeMatches(motivationalMessages[i], G)
              /\ \A j \in 1..(i - 1) : ~RangeMatches(motivationalMessages[j], G)
              /\ Val(motivationalMessage)
                    \in RangeOf(motivationalMessages[i].messages)
        /\ Val(motivationalMessage)
              \in RangeOf(motivationalMessages[LowerRange(G)].messages)
        /\ G = 0 => Val(motivationalMessage) \in
              { "You did it! Guilt-free and fabulous!",
                "Amazing work! You've lifted all the weight!",
                "Project complete! Go celebrate!",
                "Total victory! Time to rest and enjoy!" }

\* a message was drawn for the shared edge 25, with the last random outcome
C7_Witness ==
    /\ motivationalMessage # null
    /\ G = 25
    /\ randomDrawn
    /\ Val(motivationalMessage) = "Fantastic progress! Almost home!"

\* C8: the six ranges cover [0,100]: for every guiltPercentage in [0,100]
\* at least one range matches and getMotivationalMessage does not take its
\* fallback branch.
C8_RangesCoverZeroToHundred ==
    /\ \A g \in 0..100 : \E i \in DOMAIN motivationalMessages :
          RangeMatches(motivationalMessages[i], g)
    /\ (matchedRange # null /\ G \in 0..100) =>
          /\ Val(matchedRange) \in 1..6
          /\ randomDrawn

\* a message was asked for the top of the scale and the last range matched
C8_Witness ==
    /\ matchedRange = Some(6)
    /\ G = 100
    /\ randomDrawn

\* C9: when no range matches (a value below 0 or above 100) the message is
\* the first message of the last, 90-100, range, whatever the random source
\* would have given, and no random number is drawn.
C9_FallbackIsFirstOfLastRange ==
    motivationalMessage # null =>
        /\ G \notin 0..100 <=> Val(matchedRange) = 0
        /\ Val(matchedRange) = 0 =>
              /\ Val(motivationalMessage)
                    = "Take a breath. You don't have to do it all today."
              /\ Val(motivationalMessage) = motivationalMessages[6].messages[1]
              /\ ~randomDrawn

\* a message was asked for a value above the scale
C9_Witness ==
    /\ motivationalMessage # null
    /\ G = 101
    /\ matchedRange = Some(0)

C11_ProgressNeverStale ==
    /\ progressState = DeriveProgress(currentProject)
    /\ guiltMeterColor = DeriveColor(progressState)
    /\ (progressState = null) <=> (currentProject = null)

\* the selected project has two tasks, one of them toggled to completed, and
\* the gauge shows what calculateProgress gives for them
C11_Witness ==
    /\ currentProject # null
    /\ Len(Val(currentProject).tasks) = 2
    /\ progressState # null
    /\ Val(progressState).totalTasks = 2
    /\ Val(progressState).completedTasks = 1
    /\ Val(progressState).progressPercentage = 50
    /\ guiltMeterColor = Some(getGuiltMeterColor(50))

\* the step in which the handler awaiting request i of this kind resumes
\* with the backend's response
SucceededStep(i, kind) ==
    /\ inflight[i].kind = kind
    /\ inflight[i].phase = "ok"
    /\ inflight' = RemoveAt(inflight, i)

\* the projects other than pid are as they were, none added or dropped
OtherProjectsKept(pid) ==
    /\ Len(projects') = Len(projects)
    /\ \A k \in DOMAIN projects :
          /\ projects'[k].id = projects[k].id
          /\ projects[k].id # pid => projects'[k] = projects[k]

\* the task list of project pid changes from ts to New(ts)
TasksBecome(pid, New(_)) ==
    \A k \in DOMAIN projects :
        projects[k].id = pid => projects'[k].tasks = New(projects[k].tasks)

TaskAppended(req) ==
    LET New(ts) == Append(ts, Val(req.result))
    IN  OtherProjectsKept(req.projectId) /\ TasksBecome(req.projectId, New)

TaskRemoved(req) ==
    LET New(ts) == SelectSeq(ts, LAMBDA t : t.id # req.taskId)
    IN  OtherProjectsKept(req.projectId) /\ TasksBecome(req.projectId, New)

TaskReplaced(req) ==
    LET New(ts) == [j \in DOMAIN ts |->
                      IF ts[j].id = req.taskId
                      THEN [ts[j] EXCEPT !.completed = Val(req.result).completed]
                      ELSE ts[j]]
    IN  OtherProjectsKept(req.projectId) /\ TasksBecome(req.projectId, New)

\* C12: a successful add-task appends one task to the end of the task list
\* of the project it was made for and leaves the existing tasks and their
\* order as they were; a successful remove-task deletes exactly the task with
\* that id; a successful toggle replaces only the task with that id; in all
\* three the other projects are unchanged.
C12_TaskUpdatesKeepTheRest ==
    [][ \A i \in DOMAIN inflight :
          /\ SucceededStep(i, "addTask") => TaskAppended(inflight[i])
          /\ SucceededStep(i, "removeTask") => TaskRemoved(inflight[i])
          /\ SucceededStep(i, "toggleTask") => TaskReplaced(inflight[i])
      ]_vars

\* the same for a handler that resumes with the projects it was started
\* with, no other update having come in between
C12_UpdatesInTurnKeepTheRest ==
    [][ \A i \in DOMAIN inflight :
          inflight[i].projects = projects =>
              /\ SucceededStep(i, "addTask") => TaskAppended(inflight[i])
              /\ SucceededStep(i, "removeTask") => TaskRemoved(inflight[i])
              /\ SucceededStep(i, "toggleTask") => TaskReplaced(inflight[i])
      ]_vars

\* the requests that create, delete or toggle
MutatingKinds ==
    {"addProject", "deleteProject", "addTask", "toggleTask", "removeTask"}

TaskKinds == {"addTask", "toggleTask", "removeTask"}

\* the step in which the handler awaiting request i resumes without a
\* response that is ok: an error status, or fetch rejected
FailedStep(i) ==
    /\ inflight[i].kind \in MutatingKinds
    /\ inflight[i].phase = "sent"
    /\ inflight' = RemoveAt(inflight, i)

\* a step that sends a request of a task handler
TaskRequestSent ==
    /\ Len(inflight') = Len(inflight) + 1
    /\ inflight'[Len(inflight')].kind \in TaskKinds

\* a step of the user that sent nothing, selected nothing and changed no
\* session: a handler that returned at once
HandlerReturnedStep ==
    /\ userActions' # userActions
    /\ inflight' = inflight
    /\ currentProjectId' = currentProjectId
    /\ user' = user
    /\ authRequest' = authRequest

\* C13: local state changes only with the response of a request.  When a
\* request for add-project, delete-project, add-task, toggle-task or
\* remove-task fails (response not ok, or network error) projects and
\* currentProjectId stay as they are and an error message is set; without a
\* selected project the task handlers send no request and change nothing.
C13_FailuresChangeNothing ==
    [][ /\ projects' # projects => Len(inflight') < Len(inflight)
        /\ \A i \in DOMAIN inflight :
              FailedStep(i) =>
                  /\ projects' = projects
                  /\ currentProjectId' = currentProjectId
                  /\ error' # null
        /\ currentProject = null =>
              /\ ~TaskRequestSent
              /\ HandlerReturnedStep =>
                    UNCHANGED <<projects, error, loading, serverProjects,
                                progressState, guiltMeterColor>>
      ]_vars

\* a remove-task request failed with a status that is not ok: the message of
\* the handler is shown and the selected project still has its task
C13_Witness ==
    /\ error = Some("Failed to delete task")
    /\ inflight = <<>>
    /\ currentProject # null
    /\ Len(Val(currentProject).tasks) = 1
    /\ projects = ServerList(serverProjects, Val(user))

\* every task of the list has its completion flag set
AllDone(ts) == \A j \in DOMAIN ts : ts[j].completed

\* C14: the project list marks a project completed, and the gauge shows
\* guilt 0, only if every task of the project has its completion flag set:
\* an open task of small positive weight next to a heavy completed one
\* (weights 1 and 200) does not round the progress up to 100.
C14_CompletedOnlyWhenAllDone ==
    /\ \A k \in DOMAIN projects :
          IsComplete(projects[k]) => AllDone(projects[k].tasks)
    /\ (progressState # null /\ Val(progressState).guiltPercentage = 0) =>
          AllDone(Val(currentProject).tasks)

\* the projects of a list with their tasks, order left aside
Content(ps) ==
    { [ id |-> ps[k].id,
        tasks |-> { ps[k].tasks[j] : j \in DOMAIN ps[k].tasks } ] :
      k \in DOMAIN ps }

\* C15: no update is lost when actions overlap: whatever the interleaving of
\* add-project, delete-project, add-task, toggle-task and remove-task
\* requests and responses, once every response has been processed the local
\* projects are those of the backend: every created project and task is
\* there, every deleted one is not, every toggle shows.
C15_NoUpdateLost ==
    inflight = <<>> =>
        Content(projects) = Content(ServerList(serverProjects, Val(user)))

\* the ids of the projects of a list
Ids(ps) == { ps[k].id : k \in DOMAIN ps }

\* currentProjectId is null or the id of a local project
SelectionIsLocal ==
    currentProjectId = null \/ Val(currentProjectId) \in Ids(projects)

\* the step of the response to the deletion of the selected project: the
\* selection moves to the first remaining project, or to null
DeletionMovesSelection ==
    \A i \in DOMAIN inflight :
        ( /\ SucceededStep(i, "deleteProject")
          /\ currentProjectId = Some(inflight[i].projectId) )
        => /\ inflight[i].projectId \notin Ids(projects')
           /\ currentProjectId' =
                 IF projects' = <<>> THEN null ELSE Some(projects'[1].id)

\* C16: after any sequence of load, add-project, select-project and
\* delete-project operations, a reload after logout and login included,
\* currentProjectId is null or the id of a project of the local list; after
\* the deletion of the selected project it is the id of the first remaining
\* project, or null when none remains.
C16_SelectionIsLocalProject ==
    []SelectionIsLocal /\ [][DeletionMovesSelection]_vars

\* the second half alone
C16_DeletionMovesSelection == [][DeletionMovesSelection]_vars

\* the backend holds project pid for a user other than u
ProjectOfAnother(pid, u) ==
    \E k \in DOMAIN serverProjects :
        serverProjects[k].id = pid /\ serverProjects[k].owner # u

\* C17: project data does not cross sessions: while a user is logged in
\* (the load of the projects in flight, answered with an empty list, or
\* failed), App holds and renders no project and no currentProjectId that
\* was loaded for another user who has logged out.
C17_NoProjectOfAnotherUser ==
    MainView =>
        /\ \A k \in DOMAIN projects : projects[k].owner = Val(user)
        /\ currentProjectId # null =>
              ~ProjectOfAnother(Val(currentProjectId), Val(user))

(* ---------------------- claims about AuthProvider --------------------- *)

\* the in-memory token is the one in localStorage, and an authenticated user
\* has a token
SessionConsistent ==
    /\ token = localStorageToken
    /\ user # null => token # null

\* the step that ends a login or signup request: it either succeeded, or it
\* threw (Login shows the message) and user, token and localStorage are as
\* before
LoginEnds ==
    ( /\ authRequest # null
      /\ Val(authRequest).kind \in {"login", "signup"}
      /\ authRequest' = null )
    => \/ /\ loginError' = ""
          /\ user' = Some(Val(authRequest).user)
          /\ token' # null
          /\ localStorageToken' = token'
       \/ /\ loginError' # ""
          /\ UNCHANGED <<user, token, localStorageToken>>

\* the step of logout clears user, token and localStorage
LogoutClears ==
    (user # null /\ user' = null) =>
        token' = null /\ localStorageToken' = null

\* C18: once the initial user load has finished, after any sequence of
\* successful or failed logins, signups and logouts, the in-memory token
\* equals the token in localStorage and an authenticated user has a token; a
\* failed login or signup throws and leaves user, token and localStorage
\* unchanged; logout clears all three.
C18_SessionInvariant ==
    /\ [](~isLoading => SessionConsistent)
    /\ [][LoginEnds /\ LogoutClears]_vars

\* a user was logged in and created a project, logged out, and the login
\* that followed failed: nobody is authenticated, no token is held or stored
C18_Witness ==
    /\ ~isLoading
    /\ loginError = "Login failed"
    /\ authRequest = null
    /\ user = null
    /\ token = null
    /\ localStorageToken = null
    /\ serverProjects # <<>>

====
